---------------------------- MODULE Spec2Model ----------------------------
(***************************************************************************)
(* Model of src/main.py: the contact manager's field types (Phone,         *)
(* Birthday), Record, AddressBook with its upcoming-birthday query, and    *)
(* the Bot command loop with its load/save lifecycle.                      *)
(*                                                                         *)
(* Strings that the code inspects character by character (phone numbers,   *)
(* birthday texts) are sequences of one-character strings.  The character  *)
(* "u3" stands for U+0663 ARABIC-INDIC DIGIT THREE, a non-ASCII character   *)
(* for which Python's str.isdigit() and the regex class \d are true.       *)
(***************************************************************************)
EXTENDS Integers, Sequences, FiniteSets, TLC

VARIABLES data, before, call, pc, file, today, steps

vars == <<data, before, call, pc, file, today, steps>>

---------------------------------------------------------------------------
(* Characters *)

DigitChars == <<"0", "1", "2", "3", "4", "5", "6", "7", "8", "9">>

AsciiDigits == {DigitChars[i] : i \in 1..Len(DigitChars)}

UnicodeDigits == {"u3"}

\* str.isdigit() on one character (used on the whole string at line 39)
IsDigitChar(c) == c \in AsciiDigits \cup UnicodeDigits

\* int() of one digit character
DigitVal(c) == IF c = "u3" THEN 3 ELSE CHOOSE n \in 0..9 : DigitChars[n + 1] = c

DigitChar(n) == DigitChars[n + 1]

---------------------------------------------------------------------------
(* Field, Phone *)

PhoneLen == 10

\* str.isdigit(): non-empty and every character is a digit
IsDigitStr(value) == Len(value) > 0 /\ \A i \in 1..Len(value) : IsDigitChar(value[i])

\* Phone.__init__ does not raise
PhoneValid(value) == ~(Len(value) # PhoneLen \/ ~IsDigitStr(value))

\* Field.__init__ / Field.__str__
Field(value) == [value |-> value]

FieldStr(f) == f.value

\* Phone(value): the constructed object, or the ValueError
Phone(value) ==
    IF PhoneValid(value)
    THEN [outcome |-> "ok", ret |-> Field(value)]
    ELSE [outcome |-> "ValueError", ret |-> Field(<<>>)]

---------------------------------------------------------------------------
(* datetime.date arithmetic, as the standard library computes it *)

Date(y, m, d) == [year |-> y, month |-> m, day |-> d]

NoDate == Date(0, 0, 0)

IsLeap(y) == y % 4 = 0 /\ (y % 100 # 0 \/ y % 400 = 0)

DaysInMonthTable == <<31, 28, 31, 30, 31, 30, 31, 31, 30, 31, 30, 31>>

DaysBeforeMonthTable == <<0, 31, 59, 90, 120, 151, 181, 212, 243, 273, 304, 334>>

DaysInMonth(y, m) == IF m = 2 /\ IsLeap(y) THEN 29 ELSE DaysInMonthTable[m]

DaysBeforeYear(y) ==
    LET p == y - 1 IN p * 365 + (p \div 4) - (p \div 100) + (p \div 400)

DaysBeforeMonth(y, m) ==
    DaysBeforeMonthTable[m] + (IF m > 2 /\ IsLeap(y) THEN 1 ELSE 0)

\* date(y, m, d) is constructible
ValidDate(y, m, d) ==
    /\ y >= 1 /\ y <= 9999
    /\ m >= 1 /\ m <= 12
    /\ d >= 1 /\ d <= DaysInMonth(y, m)

\* date.toordinal()
ToOrdinal(dt) == DaysBeforeYear(dt.year) + DaysBeforeMonth(dt.year, dt.month) + dt.day

\* date.fromordinal(n)
FromOrdinal(ord) ==
    LET n0 == ord - 1
        n400 == n0 \div 146097
        r400 == n0 % 146097
        n100 == r400 \div 36524
        r100 == r400 % 36524
        n4 == r100 \div 1461
        r4 == r100 % 1461
        n1 == r4 \div 365
        n == r4 % 365
        year == n400 * 400 + 1 + n100 * 100 + n4 * 4 + n1
        leap == n1 = 3 /\ (n4 # 24 \/ n100 = 3)
        month0 == (n + 50) \div 32
        prec0 == DaysBeforeMonthTable[month0] + (IF month0 > 2 /\ leap THEN 1 ELSE 0)
        month == IF prec0 > n THEN month0 - 1 ELSE month0
        prec == IF prec0 > n
                THEN prec0 - (DaysInMonthTable[month] + (IF month = 2 /\ leap THEN 1 ELSE 0))
                ELSE prec0
    IN IF n1 = 4 \/ n100 = 4
       THEN Date(year - 1, 12, 31)
       ELSE Date(year, month, n - prec + 1)

\* date.weekday(): 0 is Monday
Weekday(dt) == (ToOrdinal(dt) + 6) % 7

\* date + timedelta(days=k)
AddDays(dt, k) == FromOrdinal(ToOrdinal(dt) + k)

\* (a - b).days
DaysBetween(a, b) == ToOrdinal(a) - ToOrdinal(b)

\* a < b on dates
DateLess(a, b) ==
    \/ a.year < b.year
    \/ a.year = b.year /\ a.month < b.month
    \/ a.year = b.year /\ a.month = b.month /\ a.day < b.day

\* date.replace(year=y): the new date, or the ValueError
ReplaceYear(dt, y) ==
    IF ValidDate(y, dt.month, dt.day)
    THEN [outcome |-> "ok", ret |-> Date(y, dt.month, dt.day)]
    ELSE [outcome |-> "ValueError", ret |-> NoDate]

---------------------------------------------------------------------------
(* strftime / strptime with "%d.%m.%Y" *)

TwoDigits(n) == <<DigitChar(n \div 10), DigitChar(n % 10)>>

FourDigits(n) ==
    <<DigitChar(n \div 1000), DigitChar((n \div 100) % 10),
      DigitChar((n \div 10) % 10), DigitChar(n % 10)>>

\* date.strftime("%d.%m.%Y"), for years 1000..9999
Strftime(dt) == TwoDigits(dt.day) \o <<".">> \o TwoDigits(dt.month) \o <<".">> \o FourDigits(dt.year)

\* positions of "." in s
DotsOf(s) == {i \in 1..Len(s) : s[i] = "."}

\* int() of a digit string
RECURSIVE IntOf(_)
IntOf(s) == IF Len(s) = 0 THEN 0 ELSE 10 * IntOf(SubSeq(s, 1, Len(s) - 1)) + DigitVal(s[Len(s)])

NonZeroAscii == AsciiDigits \ {"0"}

\* the directive %d: 3[0-1]|[1-2]\d|0[1-9]|[1-9]| [1-9]
DayFieldOK(f) ==
    \/ Len(f) = 2 /\ f[1] = "3" /\ f[2] \in {"0", "1"}
    \/ Len(f) = 2 /\ f[1] \in {"1", "2"} /\ IsDigitChar(f[2])
    \/ Len(f) = 2 /\ f[1] \in {"0", " "} /\ f[2] \in NonZeroAscii
    \/ Len(f) = 1 /\ f[1] \in NonZeroAscii

\* the directive %m: 1[0-2]|0[1-9]|[1-9]
MonthFieldOK(f) ==
    \/ Len(f) = 2 /\ f[1] = "1" /\ f[2] \in {"0", "1", "2"}
    \/ Len(f) = 2 /\ f[1] = "0" /\ f[2] \in NonZeroAscii
    \/ Len(f) = 1 /\ f[1] \in NonZeroAscii

\* the directive %Y: \d\d\d\d
YearFieldOK(f) == Len(f) = 4 /\ \A i \in 1..4 : IsDigitChar(f[i])

FieldInt(f) == IntOf(IF Len(f) > 0 /\ f[1] = " " THEN Tail(f) ELSE f)

\* datetime.strptime(value, "%d.%m.%Y"): the date, or the ValueError
Strptime(value) ==
    LET dots == DotsOf(value)
        bad == [outcome |-> "ValueError", ret |-> NoDate]
    IN IF Cardinality(dots) # 2 THEN bad
       ELSE LET p1 == CHOOSE i \in dots : \A j \in dots : i <= j
                p2 == CHOOSE i \in dots : \A j \in dots : j <= i
                fd == SubSeq(value, 1, p1 - 1)
                fm == SubSeq(value, p1 + 1, p2 - 1)
                fy == SubSeq(value, p2 + 1, Len(value))
            IN IF ~(DayFieldOK(fd) /\ MonthFieldOK(fm) /\ YearFieldOK(fy)) THEN bad
               ELSE IF ~ValidDate(FieldInt(fy), FieldInt(fm), FieldInt(fd)) THEN bad
               ELSE [outcome |-> "ok", ret |-> Date(FieldInt(fy), FieldInt(fm), FieldInt(fd))]

---------------------------------------------------------------------------
(* Birthday *)

NoBirthday == [value |-> <<>>, date |-> NoDate]

\* Birthday(value): the constructed object (text and parsed date), or the ValueError
Birthday(value) ==
    LET p == Strptime(value)
    IN IF p.outcome = "ok"
       THEN [outcome |-> "ok", ret |-> [value |-> value, date |-> p.ret]]
       ELSE [outcome |-> "ValueError", ret |-> NoBirthday]

Monday == 0

Saturday == 5

\* mutant: "<" in place of "<="
find_next_weekday_lt(date, weekday) ==
    LET days_ahead == weekday - Weekday(date)
    IN AddDays(date, IF days_ahead < 0 THEN days_ahead + 7 ELSE days_ahead)

\* Birthday.find_next_weekday
find_next_weekday(date, weekday) ==
    LET days_ahead == weekday - Weekday(date)
    IN AddDays(date, IF days_ahead <= 0 THEN days_ahead + 7 ELSE days_ahead)

\* mutant: ">" in place of ">="
adjust_for_weekend_gt(date) ==
    IF Weekday(date) > Saturday THEN find_next_weekday(date, Monday) ELSE date

\* Birthday.adjust_for_weekend
adjust_for_weekend(date) ==
    IF Weekday(date) >= Saturday THEN find_next_weekday(date, Monday) ELSE date

---------------------------------------------------------------------------
(* Record and AddressBook.  The book (UserDict.data) is the sequence of    *)
(* its Records in insertion order, one per name.                           *)

\* Record.__init__
Record(name) == [name |-> Field(name), phones |-> <<>>, birthday |-> NoBirthday]

\* the index of the first phone whose value is number, 0 when there is none
FirstIndex(phones, number) ==
    IF \E i \in 1..Len(phones) : phones[i].value = number
    THEN CHOOSE i \in 1..Len(phones) :
             /\ phones[i].value = number
             /\ \A j \in 1..(i - 1) : phones[j].value # number
    ELSE 0

\* list.remove / del at index i
RemoveAt(seq, i) == SubSeq(seq, 1, i - 1) \o SubSeq(seq, i + 1, Len(seq))

NoPhone == [found |-> FALSE, phone |-> Field(<<>>)]

\* Record.add_birthday: the outcome and the Record afterwards
add_birthday(record, birthday) ==
    LET b == Birthday(birthday)
    IN IF b.outcome = "ok"
       THEN [outcome |-> "ok", record |-> [record EXCEPT !.birthday = b.ret]]
       ELSE [outcome |-> "ValueError", record |-> record]

\* Record.add_phone
add_phone(record, number) ==
    LET p == Phone(number)
    IN IF p.outcome = "ok"
       THEN [outcome |-> "ok", record |-> [record EXCEPT !.phones = Append(@, p.ret)]]
       ELSE [outcome |-> "ValueError", record |-> record]

\* mutant: every phone with the value is removed
remove_phone_all(record, number) ==
    IF FirstIndex(record.phones, number) = 0
    THEN [outcome |-> "ValueError", record |-> record]
    ELSE [outcome |-> "ok",
          record |-> [record EXCEPT !.phones = SelectSeq(@, LAMBDA p : p.value # number)]]

\* Record.remove_phone
remove_phone(record, number) ==
    LET i == FirstIndex(record.phones, number)
    IN IF i = 0
       THEN [outcome |-> "ValueError", record |-> record]
       ELSE [outcome |-> "ok", record |-> [record EXCEPT !.phones = RemoveAt(@, i)]]

\* mutant: the old number is dropped before the new one is validated
edit_phone_drop_first(record, old_number, new_number) ==
    LET i == FirstIndex(record.phones, old_number)
        p == Phone(new_number)
    IN IF i = 0 THEN [outcome |-> "ValueError", record |-> record]
       ELSE IF p.outcome # "ok"
       THEN [outcome |-> "ValueError", record |-> [record EXCEPT !.phones = RemoveAt(@, i)]]
       ELSE [outcome |-> "ok", record |-> [record EXCEPT !.phones[i] = p.ret]]

\* Record.edit_phone
edit_phone(record, old_number, new_number) ==
    LET i == FirstIndex(record.phones, old_number)
        p == Phone(new_number)
    IN IF i = 0 THEN [outcome |-> "ValueError", record |-> record]
       ELSE IF p.outcome # "ok" THEN [outcome |-> "ValueError", record |-> record]
       ELSE [outcome |-> "ok", record |-> [record EXCEPT !.phones[i] = p.ret]]

\* Record.find_phone: the first phone with the value, or None
find_phone(record, number) ==
    LET i == FirstIndex(record.phones, number)
    IN IF i = 0 THEN NoPhone ELSE [found |-> TRUE, phone |-> record.phones[i]]

\* the position of name's Record in the book, 0 when the name is no key
IndexOf(book, name) ==
    IF \E i \in 1..Len(book) : book[i].name.value = name
    THEN CHOOSE i \in 1..Len(book) : book[i].name.value = name
    ELSE 0

\* AddressBook.add_record: an existing key keeps its place
add_record(book, record) ==
    LET i == IndexOf(book, record.name.value)
    IN IF i = 0 THEN Append(book, record) ELSE [book EXCEPT ![i] = record]

\* AddressBook.find: the Record, or None
find(book, name) ==
    LET i == IndexOf(book, name)
    IN IF i = 0 THEN [found |-> FALSE, record |-> Record("")]
       ELSE [found |-> TRUE, record |-> book[i]]

\* AddressBook.delete
delete(book, name) ==
    LET i == IndexOf(book, name)
    IN IF i = 0 THEN [outcome |-> "ValueError", book |-> book]
       ELSE [outcome |-> "ok", book |-> RemoveAt(book, i)]

\* mutant: the window test one day too wide
InWindow_wide(delta, days) == 0 <= delta /\ delta <= days + 1

\* the test 0 <= (birthday_this_year - today).days <= days
InWindow(delta, days) == 0 <= delta /\ delta <= days

\* the loop of AddressBook.get_upcoming_birthdays from record i on: the list,
\* or the ValueError that date.replace raises
RECURSIVE UpcomingFrom(_, _, _, _, _)
UpcomingFrom(book, i, tday, days, upcoming_birthdays) ==
    IF i > Len(book) THEN [outcome |-> "ok", ret |-> upcoming_birthdays]
    ELSE LET record == book[i]
         IN IF record.birthday = NoBirthday
            THEN UpcomingFrom(book, i + 1, tday, days, upcoming_birthdays)
            ELSE LET this == ReplaceYear(record.birthday.date, tday.year)
                     next == IF this.outcome = "ok" /\ DateLess(this.ret, tday)
                             THEN ReplaceYear(this.ret, this.ret.year + 1)
                             ELSE this
                 IN IF next.outcome # "ok" THEN [outcome |-> "ValueError", ret |-> <<>>]
                    ELSE IF InWindow(DaysBetween(next.ret, tday), days)
                    THEN UpcomingFrom(book, i + 1, tday, days,
                             Append(upcoming_birthdays,
                                    [name |-> record.name,
                                     birthday |-> Strftime(adjust_for_weekend(next.ret))]))
                    ELSE UpcomingFrom(book, i + 1, tday, days, upcoming_birthdays)

\* AddressBook.get_upcoming_birthdays(days)
get_upcoming_birthdays(book, tday, days) == UpcomingFrom(book, 1, tday, days, <<>>)

DefaultDays == 7

---------------------------------------------------------------------------
(* Bot: the command table, the handlers and Command.execute.  A handler    *)
(* gives its outcome, the book as it leaves it and the message it shows.   *)

\* str.lower() on the command words the model types
Lower(word) ==
    CASE word = "ADD" -> "add"
      [] word = "Exit" -> "exit"
      [] OTHER -> word

\* Bot.__parse_input on the words of the line (the result of strip().split())
parse_input(parts) ==
    IF Len(parts) = 0 THEN [cmd |-> "None", args |-> <<>>]
    ELSE [cmd |-> Lower(parts[1]), args |-> Tail(parts)]

\* the add_command calls of Bot.run, in order; arity -1 is a handler taking *_
Commands ==
    << [names |-> {"hello"}, func |-> "hello", arity |-> -1],
       [names |-> {"exit", "close"}, func |-> "exit", arity |-> -1],
       [names |-> {"add"}, func |-> "add_number", arity |-> 2],
       [names |-> {"change"}, func |-> "change_number", arity |-> 3],
       [names |-> {"phone"}, func |-> "show_phone", arity |-> 1],
       [names |-> {"all"}, func |-> "show_all", arity |-> -1],
       [names |-> {"add-birthday"}, func |-> "add_birthday", arity |-> 2],
       [names |-> {"show-birthday"}, func |-> "show_birthday", arity |-> 1],
       [names |-> {"birthdays"}, func |-> "get_birthdays", arity |-> -1] >>

\* next((c for c in commands if cmd_str in c.names), None): its index, or 0
Lookup(cmd_str) ==
    IF \E i \in 1..Len(Commands) : cmd_str \in Commands[i].names
    THEN CHOOSE i \in 1..Len(Commands) :
             /\ cmd_str \in Commands[i].names
             /\ \A j \in 1..(i - 1) : cmd_str \notin Commands[j].names
    ELSE 0

Done(outcome, book, message) == [outcome |-> outcome, book |-> book, message |-> message]

\* the book with name's Record replaced by record
Put(book, name, record) == [book EXCEPT ![IndexOf(book, name)] = record]

\* Record.__str__: the name, then the phones
RecordStr(record) == <<record.name.value>> \o [i \in 1..Len(record.phones) |-> record.phones[i].value]

\* mutant: the duplicate test left out
add_number_no_check(book, name, number) ==
    LET f == find(book, name)
        r == add_phone(IF f.found THEN f.record ELSE Record(name), number)
    IN IF r.outcome # "ok" THEN Done("ValueError", book, "Phone number must be 10 digits.")
       ELSE IF f.found THEN Done("ok", Put(book, name, r.record), "Added number")
       ELSE Done("ok", add_record(book, r.record), "Contact added")

\* mutant: the new Record is put in the book before its number is validated
add_number_insert_first(book, name, number) ==
    LET f == find(book, name)
        r == add_phone(IF f.found THEN f.record ELSE Record(name), number)
    IN IF f.found /\ find_phone(f.record, number).found
       THEN Done("ValueError", book, "Phone number already exists.")
       ELSE IF r.outcome # "ok"
       THEN Done("ValueError",
                 IF f.found THEN book ELSE add_record(book, Record(name)),
                 "Phone number must be 10 digits.")
       ELSE IF f.found THEN Done("ok", Put(book, name, r.record), "Added number")
       ELSE Done("ok", add_record(book, r.record), "Contact added")

\* Bot.add_number
add_number(book, name, number) ==
    LET f == find(book, name)
        r == add_phone(IF f.found THEN f.record ELSE Record(name), number)
    IN IF f.found /\ find_phone(f.record, number).found
       THEN Done("ValueError", book, "Phone number already exists.")
       ELSE IF r.outcome # "ok" THEN Done("ValueError", book, "Phone number must be 10 digits.")
       ELSE IF f.found THEN Done("ok", Put(book, name, r.record), "Added number")
       ELSE Done("ok", add_record(book, r.record), "Contact added")

\* Bot.change_number
change_number(book, name, old_num, new_num) ==
    LET f == find(book, name)
        r == edit_phone(f.record, old_num, new_num)
    IN IF ~f.found THEN Done("ValueError", book, "Contact not found.")
       ELSE IF find_phone(f.record, new_num).found
       THEN Done("ValueError", book, "Number already exists.")
       ELSE IF r.outcome # "ok"
       THEN Done("ValueError", Put(book, name, r.record),
                 IF FirstIndex(f.record.phones, old_num) = 0
                 THEN "Phone number not found." ELSE "Phone number must be 10 digits.")
       ELSE Done("ok", Put(book, name, r.record), "Number changed")

\* Bot.show_phone
show_phone(book, name) ==
    LET f == find(book, name)
    IN IF f.found THEN Done("ok", book, RecordStr(f.record))
       ELSE Done("ValueError", book, "Contact not found.")

\* Bot.show_all
show_all(book) ==
    IF Len(book) = 0 THEN Done("ok", book, "No contacts stored.")
    ELSE Done("ok", book, [i \in 1..Len(book) |-> RecordStr(book[i])])

\* Bot.add_birthday
bot_add_birthday(book, name, birthday) ==
    LET f == find(book, name)
        r == add_birthday(f.record, birthday)
    IN IF ~f.found THEN Done("ValueError", book, "Contact not found.")
       ELSE IF r.outcome # "ok"
       THEN Done("ValueError", Put(book, name, r.record), "Accepted date format: 'DD.MM.YYYY'.")
       ELSE Done("ok", Put(book, name, r.record), "birthday is set")

\* Bot.show_birthday
show_birthday(book, name) ==
    LET f == find(book, name)
    IN IF f.found THEN Done("ok", book, <<name, FieldStr(f.record.birthday)>>)
       ELSE Done("ValueError", book, "Contact not found.")

\* Bot.get_birthdays
get_birthdays(book, tday) ==
    LET r == get_upcoming_birthdays(book, tday, DefaultDays)
    IN IF r.outcome # "ok" THEN Done("ValueError", book, "day is out of range for month")
       ELSE IF Len(r.ret) > 0 THEN Done("ok", book, r.ret)
       ELSE Done("ok", book, "No upcoming birthdays.")

\* the handler func called with args
Handler(func, book, args, tday) ==
    CASE func = "hello" -> Done("ok", book, "Hello, how can I help you?")
      [] func = "exit" -> Done("SystemExit", book, "Goodbye!")
      [] func = "add_number" -> add_number(book, args[1], args[2])
      [] func = "change_number" -> change_number(book, args[1], args[2], args[3])
      [] func = "show_phone" -> show_phone(book, args[1])
      [] func = "show_all" -> show_all(book)
      [] func = "add_birthday" -> bot_add_birthday(book, args[1], args[2])
      [] func = "show_birthday" -> show_birthday(book, args[1])
      [] func = "get_birthdays" -> get_birthdays(book, tday)

\* Command.execute under input_error: a TypeError (the call does not fit the
\* handler's parameters) and a ValueError are shown as a message; the book is
\* as the handler left it; SystemExit passes through
execute(c, book, args, tday) ==
    IF c.arity >= 0 /\ Len(args) # c.arity
    THEN Done("TypeError", book, "Invalid arguments. Usage:")
    ELSE Handler(c.func, book, args, tday)

\* one turn of the loop of Bot.run on the words of a line
run_line(book, parts, tday) ==
    LET p == parse_input(parts)
        i == Lookup(p.cmd)
    IN IF i = 0 THEN [func |-> "None"] @@ Done("ok", book, "Invalid command.")
       ELSE [func |-> Commands[i].func] @@ execute(Commands[i], book, p.args, tday)

\* mutant: no finally clause, save_data only where exit is called
main_no_finally(exception) == IF exception = "EOFError" THEN "done" ELSE "finally"

\* main: where control goes when bot.run() is left by exception
main(exception) == "finally"

\* pickle.dump of the book into the file
PickleDump(book) == [kind |-> "pickle", book |-> book]

Unreadable == [kind |-> "unreadable", book |-> <<>>]

\* Bot.__load_data: the book, the outcome of reading the file and the message
\* shown ("" for none)
load_data(f) ==
    IF f.kind = "pickle" THEN Done("ok", f.book, "")
    ELSE IF f.kind = "missing" THEN Done("FileNotFoundError", <<>>, "")
    ELSE Done("Exception", <<>>, "An unexpected error occurred")

---------------------------------------------------------------------------
(* State shared by the specifications *)

NoCall == [op |-> "none", args |-> <<>>, outcome |-> "none", ret |-> <<>>]

NoFile == [kind |-> "missing", book |-> <<>>]

\* the date assumed for "today" where a specification does not vary it
SomeDay == Date(2024, 6, 10)

---------------------------------------------------------------------------
(* Specification SpecPhone: Phone(value) on every string over PhoneChars   *)
(* of length 0..MaxStrLen                                                  *)

MaxStrLen == 11

PhoneChars == {"7", "x", "u3"}

PhoneInputs == UNION {[1..n -> PhoneChars] : n \in 0..MaxStrLen}

Input(args) == [op |-> "input", args |-> args, outcome |-> "none", ret |-> <<>>]

InitPhone ==
    /\ data = <<>>
    /\ before = <<>>
    /\ call \in {Input(<<value>>) : value \in PhoneInputs}
    /\ pc = "idle"
    /\ file = NoFile
    /\ today = SomeDay
    /\ steps = 0

PhoneCall ==
    /\ call.op = "input"
    /\ LET r == Phone(call.args[1])
       IN call' = [op |-> "Phone", args |-> call.args, outcome |-> r.outcome, ret |-> r.ret]
    /\ UNCHANGED <<data, before, pc, file, today, steps>>

NextPhone == PhoneCall

SpecPhone == InitPhone /\ [][NextPhone]_vars

\* every character of s is one of '0'..'9'
AllAscii(s) == \A i \in 1..Len(s) : s[i] \in AsciiDigits

\* C7: Phone(value) succeeds if and only if value has exactly 10 characters,
\* all of them ASCII digits '0'..'9', and the constructed Phone renders back
\* to value.
C7_AsciiOnly ==
    call.op = "Phone" =>
        /\ call.outcome = "ok" <=> (Len(call.args[1]) = PhoneLen /\ AllAscii(call.args[1]))
        /\ call.outcome = "ok" => FieldStr(call.ret) = call.args[1]

---------------------------------------------------------------------------
(* Specification SpecDates: the weekday helpers and the birthday query on  *)
(* books of one or two Records, for the days around a turn of the year     *)
(* and around 29 February                                                  *)

TodaySpan == 13

MaxDays == 8

FirstToday == Date(2023, 12, 20)

Todays ==
    {AddDays(FirstToday, k) : k \in 0..TodaySpan}
        \cup {Date(2024, 2, 28), Date(2024, 2, 29), Date(2024, 3, 1)}

\* the birthdays: every month/day from the day before the first today to past
\* the widest window, 28 and 29 February, 1 March and 15 June, born in 2000
BirthDates ==
    {Date(2000, d.month, d.day) : d \in {AddDays(FirstToday, k) : k \in -1..(TodaySpan + MaxDays + 2)}}
        \cup {Date(2000, 2, 28), Date(2000, 2, 29), Date(2000, 3, 1), Date(2000, 6, 15)}

Birthdays == {Birthday(Strftime(d)).ret : d \in BirthDates} \cup {NoBirthday}

RecordWith(name, birthday) == [Record(name) EXCEPT !.birthday = birthday]

DateBooks ==
    {<<RecordWith("alice", b)>> : b \in Birthdays}
        \cup {<<RecordWith("alice", b[1]), RecordWith("bob", b[2])>> : b \in Birthdays \X Birthdays}

InitDates ==
    /\ data \in DateBooks
    /\ before = <<>>
    /\ call = Input(<<>>)
    /\ pc = "idle"
    /\ file = NoFile
    /\ today \in Todays
    /\ steps = 0

FindNextWeekdayCall ==
    /\ call.op = "input"
    /\ \E weekday \in 0..6 :
          call' = [op |-> "find_next_weekday", args |-> <<today, weekday>>,
                   outcome |-> "ok", ret |-> find_next_weekday(today, weekday)]
    /\ UNCHANGED <<data, before, pc, file, today, steps>>

AdjustForWeekendCall ==
    /\ call.op = "input"
    /\ call' = [op |-> "adjust_for_weekend", args |-> <<today>>,
                outcome |-> "ok", ret |-> adjust_for_weekend(today)]
    /\ UNCHANGED <<data, before, pc, file, today, steps>>

GetUpcomingBirthdaysCall ==
    /\ call.op = "input"
    /\ \E days \in 0..MaxDays :
          LET r == get_upcoming_birthdays(data, today, days)
          IN call' = [op |-> "get_upcoming_birthdays", args |-> <<days>>,
                      outcome |-> r.outcome, ret |-> r.ret]
    /\ UNCHANGED <<data, before, pc, file, today, steps>>

NextDates == FindNextWeekdayCall \/ AdjustForWeekendCall \/ GetUpcomingBirthdaysCall

SpecDates == InitDates /\ [][NextDates]_vars

---------------------------------------------------------------------------
(* Claims about the weekday helpers and the birthday query *)

\* the date a reported entry shows
Reported(entry) == Strptime(entry.birthday).ret

IsQuery == call.op = "get_upcoming_birthdays"

\* the Record's name is among the entries the query returned
Included(record) ==
    /\ call.outcome = "ok"
    /\ \E j \in 1..Len(call.ret) : call.ret[j].name = record.name

\* some day k days from today, 0 <= k <= days, has the birthday's month and day
OccursWithin(birthday, days) ==
    \E k \in 0..days :
        LET d == AddDays(today, k)
        IN d.month = birthday.date.month /\ d.day = birthday.date.day

IsLeapDay(birthday) == birthday.date.month = 2 /\ birthday.date.day = 29

\* C2: a Record whose birthday is set and is not 29 February is included by
\* getUpcomingBirthdays(windowDays) if and only if the first occurrence of its
\* month/day on or after today is between 0 and windowDays days away.
C2_IncludedIffInWindow ==
    IsQuery =>
        \A i \in 1..Len(data) :
            (data[i].birthday # NoBirthday /\ ~IsLeapDay(data[i].birthday))
                => (Included(data[i]) <=> OccursWithin(data[i].birthday, call.args[1]))

\* C3: adjustForWeekend adds 2 days to a Saturday, 1 day to a Sunday and nothing
\* to Monday..Friday, its result is always Monday..Friday, and every date that
\* getUpcomingBirthdays reports is Monday..Friday.
C3_WeekendRollsToMonday ==
    /\ call.op = "adjust_for_weekend" =>
          LET d == call.args[1]
              shift == ToOrdinal(call.ret) - ToOrdinal(d)
          IN /\ Weekday(d) = 5 => shift = 2
             /\ Weekday(d) = 6 => shift = 1
             /\ Weekday(d) \in 0..4 => call.ret = d
             /\ Weekday(call.ret) \in 0..4
    /\ (IsQuery /\ call.outcome = "ok") =>
          \A j \in 1..Len(call.ret) :
              /\ Strptime(call.ret[j].birthday).outcome = "ok"
              /\ Weekday(Reported(call.ret[j])) \in 0..4

\* C3 witness: a query reported a Monday for a Record whose birthday is on
\* another day of the month (a weekend occurrence rolled forward).
C3_Witness ==
    /\ IsQuery /\ call.outcome = "ok"
    /\ \E j \in 1..Len(call.ret) : \E i \in 1..Len(data) :
          /\ data[i].name = call.ret[j].name
          /\ Weekday(Reported(call.ret[j])) = 0
          /\ Reported(call.ret[j]).day # data[i].birthday.date.day

\* C4 as stated: every entry of getUpcomingBirthdays(windowDays) reports a date
\* d with 0 <= d - today <= windowDays.
C4_ReportedInWindow ==
    (IsQuery /\ call.outcome = "ok") =>
        \A j \in 1..Len(call.ret) :
            LET delta == DaysBetween(Reported(call.ret[j]), today)
            IN 0 <= delta /\ delta <= call.args[1]

\* C4 amended: the window is applied to the occurrence before the weekend
\* roll-forward, so a reported date d has 0 <= d - today <= windowDays + 2, and
\* d - today exceeds windowDays only for a Monday that a weekend occurrence
\* inside the window was rolled to.
C4_ReportedWithinRoll ==
    (IsQuery /\ call.outcome = "ok") =>
        \A j \in 1..Len(call.ret) :
            LET delta == DaysBetween(Reported(call.ret[j]), today)
                days == call.args[1]
            IN /\ 0 <= delta /\ delta <= days + 2
               /\ delta > days =>
                     /\ Weekday(Reported(call.ret[j])) = 0
                     /\ \E i \in 1..Len(data) :
                           /\ data[i].name = call.ret[j].name
                           /\ OccursWithin(data[i].birthday, days)

\* C4 witness: a reported date lies beyond the window.
C4_Witness ==
    /\ IsQuery /\ call.outcome = "ok"
    /\ \E j \in 1..Len(call.ret) :
          DaysBetween(Reported(call.ret[j]), today) > call.args[1]

\* C10: findNextWeekday(date, w) is the first date strictly after date whose
\* weekday is w: 1 to 7 days later, and 7 days later when date falls on w.
C10_NextWeekdayStrictlyAfter ==
    call.op = "find_next_weekday" =>
        LET date == call.args[1]
            w == call.args[2]
            gap == ToOrdinal(call.ret) - ToOrdinal(date)
        IN /\ Weekday(call.ret) = w
           /\ 1 <= gap /\ gap <= 7
           /\ \A k \in 1..(gap - 1) : Weekday(AddDays(date, k)) # w
           /\ Weekday(date) = w => gap = 7

\* C10 witness: the date already falls on the target weekday.
C10_Witness ==
    /\ call.op = "find_next_weekday"
    /\ Weekday(call.args[1]) = call.args[2]
    /\ call.ret # call.args[1]

---------------------------------------------------------------------------
(* Specification SpecCore: the operations of Record and AddressBook called *)
(* in any order on a book of at most two names                             *)

MaxPhones == 2

Names == {"alice", "bob"}

N1 == <<"0", "5", "0", "1", "2", "3", "4", "5", "6", "7">>

N2 == <<"0", "6", "7", "7", "6", "5", "4", "3", "2", "1">>

\* ten digits, the last one not ASCII
NUnicode == <<"0", "5", "0", "1", "2", "3", "4", "5", "6", "u3">>

NShort == <<"0", "5", "0", "1", "2", "3", "4", "5", "6">>

NLetter == <<"0", "5", "0", "1", "2", "3", "4", "5", "6", "x">>

MalformedNumbers == {NShort, NLetter}

Numbers == {N1, N2} \cup MalformedNumbers

BGood == <<"1", "5", ".", "0", "6", ".", "1", "9", "9", "0">>

BLeap == <<"2", "9", ".", "0", "2", ".", "2", "0", "0", "0">>

\* 30 February
BNoSuchDay == <<"3", "0", ".", "0", "2", ".", "2", "0", "2", "0">>

BDashes == <<"1", "5", "-", "0", "6", "-", "1", "9", "9", "0">>

MalformedBirthdays == {BNoSuchDay, BDashes}

BirthdayTexts == {BGood} \cup MalformedBirthdays

InitCore ==
    /\ data = <<>>
    /\ before = <<>>
    /\ call = NoCall
    /\ pc = "idle"
    /\ file = NoFile
    /\ today = SomeDay
    /\ steps = 0

\* one call on the Record that find(name) returns
OnRecord(name, op, args, r) ==
    /\ before' = data
    /\ data' = [data EXCEPT ![IndexOf(data, name)] = r.record]
    /\ call' = [op |-> op, args |-> <<name>> \o args, outcome |-> r.outcome, ret |-> <<>>]
    /\ UNCHANGED <<pc, file, today, steps>>

CoreAddRecord ==
    \E name \in Names :
        /\ before' = data
        /\ data' = add_record(data, Record(name))
        /\ call' = [op |-> "add_record", args |-> <<name>>, outcome |-> "ok", ret |-> <<>>]
        /\ UNCHANGED <<pc, file, today, steps>>

CoreDelete ==
    \E name \in Names :
        LET r == delete(data, name)
        IN /\ before' = data
           /\ data' = r.book
           /\ call' = [op |-> "delete", args |-> <<name>>, outcome |-> r.outcome, ret |-> <<>>]
           /\ UNCHANGED <<pc, file, today, steps>>

CoreAddPhone ==
    \E name \in Names, number \in Numbers :
        /\ find(data, name).found
        /\ Len(find(data, name).record.phones) < MaxPhones
        /\ OnRecord(name, "add_phone", <<number>>, add_phone(find(data, name).record, number))

CoreRemovePhone ==
    \E name \in Names, number \in Numbers :
        /\ find(data, name).found
        /\ OnRecord(name, "remove_phone", <<number>>, remove_phone(find(data, name).record, number))

CoreEditPhone ==
    \E name \in Names, old_number \in Numbers, new_number \in Numbers :
        /\ find(data, name).found
        /\ OnRecord(name, "edit_phone", <<old_number, new_number>>,
                    edit_phone(find(data, name).record, old_number, new_number))

CoreFindPhone ==
    \E name \in Names, number \in Numbers :
        /\ find(data, name).found
        /\ before' = data
        /\ call' = [op |-> "find_phone", args |-> <<name, number>>, outcome |-> "ok",
                    ret |-> find_phone(find(data, name).record, number)]
        /\ UNCHANGED <<data, pc, file, today, steps>>

CoreAddBirthday ==
    \E name \in Names, birthday \in BirthdayTexts :
        /\ find(data, name).found
        /\ OnRecord(name, "add_birthday", <<birthday>>,
                    add_birthday(find(data, name).record, birthday))

NextCore ==
    \/ CoreAddRecord
    \/ CoreDelete
    \/ CoreAddPhone
    \/ CoreRemovePhone
    \/ CoreEditPhone
    \/ CoreFindPhone
    \/ CoreAddBirthday

SpecCore == InitCore /\ [][NextCore]_vars

---------------------------------------------------------------------------
(* Claims about Record and AddressBook *)

\* the Record a call was made on, before and after the call
RecordBefore == before[IndexOf(before, call.args[1])]

RecordAfter == data[IndexOf(data, call.args[1])]

\* how many phones of the list have the value
Count(phones, number) == Cardinality({i \in 1..Len(phones) : phones[i].value = number})

Raised == call.outcome = "ValueError"

\* C1: a core operation that fails leaves the book, every phone list and every
\* birthday as they were, and these calls fail: editPhone with old absent or
\* with new malformed, removePhone of an absent number, addPhone of a malformed
\* number, addBirthday of a malformed date, delete of an absent name.
C1_FailedCallChangesNothing ==
    /\ Raised => data = before
    /\ call.op = "edit_phone" =>
          /\ Count(RecordBefore.phones, call.args[2]) = 0 => Raised
          /\ call.args[3] \in MalformedNumbers => Raised
    /\ (call.op = "remove_phone" /\ Count(RecordBefore.phones, call.args[2]) = 0) => Raised
    /\ (call.op = "add_phone" /\ call.args[2] \in MalformedNumbers) => Raised
    /\ (call.op = "add_birthday" /\ call.args[2] \in MalformedBirthdays) => Raised
    /\ (call.op = "delete" /\ \A i \in 1..Len(before) : before[i].name.value # call.args[1])
          => Raised

\* C1 witness: editPhone of a number the Record holds to a malformed one, on a
\* Record with two phones and a birthday.
C1_Witness ==
    /\ call.op = "edit_phone" /\ Raised
    /\ Count(RecordBefore.phones, call.args[2]) > 0
    /\ call.args[3] \in MalformedNumbers
    /\ Len(RecordBefore.phones) = 2
    /\ RecordBefore.birthday # NoBirthday

\* C6 as stated: after a successful removePhone(n), findPhone(n) returns none;
\* after a successful addPhone(n), findPhone(n) returns a phone with value n.
C6_RemovedIsGone ==
    /\ (call.op = "remove_phone" /\ call.outcome = "ok")
          => ~find_phone(RecordAfter, call.args[2]).found
    /\ (call.op = "add_phone" /\ call.outcome = "ok")
          => /\ find_phone(RecordAfter, call.args[2]).found
             /\ find_phone(RecordAfter, call.args[2]).phone.value = call.args[2]

\* C6 amended: a successful removePhone(n) removes one phone with value n, the
\* first, and leaves the others in order, so findPhone(n) returns none exactly
\* when the Record held n once; after a successful addPhone(n), findPhone(n)
\* returns a phone with value n.
C6_RemovesFirstOnly ==
    /\ (call.op = "remove_phone" /\ call.outcome = "ok") =>
          LET n == call.args[2]
              old == RecordBefore.phones
              new == RecordAfter.phones
          IN /\ Count(new, n) = Count(old, n) - 1
             /\ \E i \in 1..Len(old) :
                   /\ old[i].value = n
                   /\ \A j \in 1..(i - 1) : old[j].value # n
                   /\ new = RemoveAt(old, i)
             /\ ~find_phone(RecordAfter, n).found <=> Count(old, n) = 1
    /\ (call.op = "add_phone" /\ call.outcome = "ok")
          => /\ find_phone(RecordAfter, call.args[2]).found
             /\ find_phone(RecordAfter, call.args[2]).phone.value = call.args[2]

\* C6 witness: a number held twice was removed and is still found.
C6_Witness ==
    /\ call.op = "remove_phone" /\ call.outcome = "ok"
    /\ Count(RecordBefore.phones, call.args[2]) = 2
    /\ find_phone(RecordAfter, call.args[2]).found

---------------------------------------------------------------------------
(* Specification SpecBot: the program started, fed up to MaxCommands lines, *)
(* left by exit, Ctrl-C or end of input, its book saved, and started again  *)

MaxCommands == 3

BotNumbers == {N1, N2, NUnicode, NShort}

BotBirthdays == {BGood, BLeap, BNoSuchDay}

\* the lines typed: every command with arguments of the kinds it expects, and
\* lines with too few or too many words, an unknown word and an empty line
Lines ==
    {<<"add", n, x>> : n \in Names, x \in BotNumbers}
        \cup {<<"change", n, x[1], x[2]>> : n \in Names, x \in BotNumbers \X BotNumbers}
        \cup {<<"phone", n>> : n \in Names}
        \cup {<<"add-birthday", n, b>> : n \in Names, b \in BotBirthdays}
        \cup {<<"show-birthday", n>> : n \in Names}
        \cup {<<"hello">>, <<"all">>, <<"birthdays">>, <<"exit">>, <<"close">>, <<"Exit">>}
        \cup {<<"ADD", "alice", N1>>, <<"birthdays", "alice">>}
        \cup {<<"add">>, <<"add", "alice">>, <<"add", "alice", N1, N2>>,
              <<"change", "alice", N1>>, <<"phone">>, <<"phone", "alice", "bob">>,
              <<"add-birthday", "alice">>, <<"show-birthday">>}
        \cup {<<>>, <<"remove", "alice">>}

InitBot ==
    /\ data = <<>>
    /\ before = <<>>
    /\ call = NoCall
    /\ pc = "start"
    /\ file \in {NoFile, Unreadable}
    /\ today = SomeDay
    /\ steps = 0

\* Bot.__init__: the program is started and loads the file
Startup ==
    /\ pc \in {"start", "done"}
    /\ LET r == load_data(file)
       IN /\ data' = r.book
          /\ before' = r.book
          /\ call' = [op |-> "load_data", args |-> <<>>, outcome |-> r.outcome, ret |-> r.message]
    /\ pc' = "loop"
    /\ UNCHANGED <<file, today, steps>>

\* one line is read and its command executed
Command ==
    /\ pc = "loop"
    /\ steps < MaxCommands
    /\ \E parts \in Lines :
          LET r == run_line(data, parts, today)
          IN /\ before' = data
             /\ data' = r.book
             /\ call' = [op |-> r.func, args |-> parts, outcome |-> r.outcome, ret |-> r.message]
             /\ pc' = IF r.outcome = "SystemExit" THEN main("SystemExit") ELSE "loop"
    /\ steps' = steps + 1
    /\ UNCHANGED <<file, today>>

\* Ctrl-C while the loop waits for a line: main calls bot.exit()
Interrupt ==
    /\ pc = "loop"
    /\ before' = data
    /\ call' = [op |-> "exit", args |-> <<>>, outcome |-> "KeyboardInterrupt", ret |-> "Goodbye!"]
    /\ pc' = main("KeyboardInterrupt")
    /\ UNCHANGED <<data, file, today, steps>>

\* end of input while the loop waits for a line: input() raises EOFError
EndOfInput ==
    /\ pc = "loop"
    /\ before' = data
    /\ call' = [op |-> "get_input", args |-> <<>>, outcome |-> "EOFError", ret |-> ""]
    /\ pc' = main("EOFError")
    /\ UNCHANGED <<data, file, today, steps>>

\* Bot.save_data in main's finally: the book is written, or the write fails
\* (open fails and the file stays, or dump fails and leaves a broken file) and
\* the error is shown
SaveData ==
    /\ pc = "finally"
    /\ \/ /\ file' = PickleDump(data)
          /\ call' = [op |-> "save_data", args |-> <<call.outcome>>, outcome |-> "ok", ret |-> ""]
       \/ /\ file' \in {file, Unreadable}
          /\ call' = [op |-> "save_data", args |-> <<call.outcome>>, outcome |-> "Exception",
                      ret |-> "An unexpected error occurred"]
    /\ pc' = "done"
    /\ UNCHANGED <<data, before, today, steps>>

NextBot == Startup \/ Command \/ Interrupt \/ EndOfInput \/ SaveData

SpecBot == InitBot /\ [][NextBot]_vars

---------------------------------------------------------------------------
(* Claims about the command layer *)

\* the command named func was called with n arguments
Called(func, n) == call.op = func /\ Len(call.args) = n + 1

\* the book before the command had name's Record, holding the number
Held(name, number) ==
    \E i \in 1..Len(before) :
        /\ before[i].name.value = name
        /\ \E j \in 1..Len(before[i].phones) : before[i].phones[j].value = number

Known(name) == \E i \in 1..Len(before) : before[i].name.value = name

NoDuplicates(book) ==
    \A r \in 1..Len(book) : \A i, j \in 1..Len(book[r].phones) :
        book[r].phones[i].value = book[r].phones[j].value => i = j

\* C5: after any sequence of 'add' and 'change' commands from an empty book no
\* Record holds two phones with the same value; 'add' of a number the contact
\* has, and 'change' to a number the contact has (new equal to old included),
\* are rejected with an error.
C5_PhonesUnique ==
    /\ NoDuplicates(data)
    /\ (Called("add_number", 2) /\ Held(call.args[2], call.args[3]))
          => call.outcome = "ValueError"
    /\ (Called("change_number", 3) /\ Held(call.args[2], call.args[4]))
          => call.outcome = "ValueError"

\* C5 witness: 'change' of a number to itself on a contact that holds it and
\* another number was rejected.
C5_Witness ==
    /\ Called("change_number", 3)
    /\ call.args[3] = call.args[4]
    /\ Held(call.args[2], call.args[4])
    /\ call.outcome = "ValueError"
    /\ \E i \in 1..Len(data) : Len(data[i].phones) = 2

\* the ways the loop was left
LeftBy == {"SystemExit", "KeyboardInterrupt", "EOFError"}

\* C8: a command that fails with a validation, not-found or duplicate error, or
\* is called with the wrong number of arguments, shows a message, leaves the
\* book as it was and leaves the loop running; the loop is left only by the
\* exit/close command, by Ctrl-C or by the end of input.
C8_FailedCommandKeepsLoop ==
    /\ call.outcome \in {"ValueError", "TypeError"} =>
          /\ data = before
          /\ pc = "loop"
          /\ call.ret # ""
    /\ (call.op = "add_number" /\ Len(call.args) # 3) => call.outcome = "TypeError"
    /\ (call.op = "change_number" /\ Len(call.args) # 4) => call.outcome = "TypeError"
    /\ (call.op \in {"show_phone", "show_birthday"} /\ Len(call.args) # 2)
          => call.outcome = "TypeError"
    /\ (call.op = "add_birthday" /\ Len(call.args) # 3) => call.outcome = "TypeError"
    /\ (Called("add_number", 2) /\ call.args[3] \in MalformedNumbers)
          => call.outcome = "ValueError"
    /\ (Called("change_number", 3) /\ ~Held(call.args[2], call.args[3]))
          => call.outcome = "ValueError"
    /\ (Called("change_number", 3) /\ call.args[4] \in MalformedNumbers)
          => call.outcome = "ValueError"
    /\ (Called("add_birthday", 2) /\ (~Known(call.args[2]) \/ call.args[3] \in MalformedBirthdays))
          => call.outcome = "ValueError"
    /\ ((Called("show_phone", 1) \/ Called("show_birthday", 1)) /\ ~Known(call.args[2]))
          => call.outcome = "ValueError"
    /\ pc = "finally" => call.outcome \in LeftBy /\ call.op \in {"exit", "get_input"}
    /\ pc = "done" => call.op = "save_data" /\ call.args[1] \in LeftBy

\* C8 witness: 'add' of a malformed number for a name the book does not have,
\* while the book has another contact.
C8_Witness ==
    /\ Called("add_number", 2)
    /\ call.args[3] \in MalformedNumbers
    /\ ~Known(call.args[2])
    /\ Len(before) = 1
    /\ call.outcome = "ValueError"
    /\ pc = "loop"

=============================================================================
